---- MODULE Spec2Model ----
(***************************************************************************)
(* Model of udemy_section_name_extractor/main.py: HTMLSectionExtractor     *)
(* (open_html, transform_spaces, extract_content, save_as_tsv,             *)
(* save_as_txt) and the __main__ script that runs them in sequence.        *)
(*                                                                         *)
(* Text is a sequence of one-character strings.  A document is the         *)
(* sequence, in document order, of the elements the extractor looks for:   *)
(* section-heading divs and section-duration divs.                         *)
(***************************************************************************)
EXTENDS Integers, Sequences, FiniteSets, TLC

VARIABLES
    file_path,      \* self.file_path: "", or the name of the input
    fs,             \* what the joined input path resolves to on disk
    disk,           \* the document stored in the input file (when it is a file)
    html_content,   \* self.html_content, as the parsed document
    sections,       \* self.sections: sequence of <<title, duration>>
    previous,       \* self.sections as the last extract_content call found it
    rules,          \* per record, the branch of the duration rules that produced it
    out,            \* the output file: [state, data]
    caller,         \* who calls the methods: "main", "tsv", "api" or "text"
    pc,             \* position of the caller
    err,            \* the exception that ended the last call (NoError when none)
    last,           \* the last call made ("" before the first)
    arg,            \* the argument of a direct transform_spaces call
    ret             \* what that call returned

vars == <<file_path, fs, disk, html_content, sections, previous, rules, out, caller,
          pc, err, last, arg, ret>>

----------------------------------------------------------------------------
\* Bounds of the model.

\* longest text, counted in fragments of Frags
MaxFrags == 3
\* longest document of the structural family, counted in elements
MaxNodes == 3
----------------------------------------------------------------------------
\* Text.

Section_ == <<"S", "e", "c", "t", "i", "o", "n", " ">>
Checklist == <<"\n", "[", " ", "]", " ", "S", ".">>
NA == <<"N", "/", "A">>

Whitespace == {" ", "\t", "\n", "\r"}

IsSpace(c) == c \in Whitespace

\* str.strip(): leading and trailing whitespace removed
RECURSIVE LStrip(_)
LStrip(s) ==
    IF s # <<>> /\ IsSpace(Head(s)) THEN LStrip(Tail(s)) ELSE s

RECURSIVE RStrip(_)
RStrip(s) ==
    IF s # <<>> /\ IsSpace(s[Len(s)]) THEN RStrip(SubSeq(s, 1, Len(s) - 1)) ELSE s

Strip(s) == RStrip(LStrip(s))

\* s starts with p at position i
MatchAt(s, p, i) ==
    /\ i + Len(p) - 1 <= Len(s)
    /\ \A k \in 1..Len(p) : s[i + k - 1] = p[k]

Contains(s, p) == \E i \in 1..Len(s) : MatchAt(s, p, i)

\* str.replace(old, new): every non-overlapping occurrence, left to right
RECURSIVE ReplaceFrom(_, _, _, _)
ReplaceFrom(s, old, new, i) ==
    IF i > Len(s) THEN <<>>
    ELSE IF MatchAt(s, old, i) THEN new \o ReplaceFrom(s, old, new, i + Len(old))
    ELSE <<s[i]>> \o ReplaceFrom(s, old, new, i + 1)

Replace(s, old, new) == ReplaceFrom(s, old, new, 1)

\* transform_spaces with the pattern ' +': runs of spaces only
RECURSIVE SubSpacesOnly(_, _)
SubSpacesOnly(s, i) ==
    IF i > Len(s) THEN <<>>
    ELSE IF s[i] = " " /\ i > 1 /\ s[i - 1] = " " THEN SubSpacesOnly(s, i + 1)
    ELSE <<s[i]>> \o SubSpacesOnly(s, i + 1)

transform_spaces_only(text) == SubSpacesOnly(text, 1)

\* re.sub(r'\s+', ' ', text): each maximal run of whitespace becomes one space
RECURSIVE SubSpaces(_, _)
SubSpaces(s, i) ==
    IF i > Len(s) THEN <<>>
    ELSE IF IsSpace(s[i])
         THEN IF i > 1 /\ IsSpace(s[i - 1])
              THEN SubSpaces(s, i + 1)
              ELSE <<" ">> \o SubSpaces(s, i + 1)
         ELSE <<s[i]>> \o SubSpaces(s, i + 1)

transform_spaces(text) == SubSpaces(text, 1)

\* text.split('|')[-1]: what follows the last '|' (all of text when there is none)
LastPipe(s) ==
    LET P == {i \in 1..Len(s) : s[i] = "|"}
    IN  IF P = {} THEN 0 ELSE CHOOSE i \in P : \A j \in P : j <= i

SplitLast(s) == SubSeq(s, LastPipe(s) + 1, Len(s))

\* get_text(strip=True) of an element whose text nodes are `strings`, in
\* document order: each is stripped, the empty ones are dropped, the rest joined
RECURSIVE get_text(_)
get_text(strings) ==
    IF strings = <<>> THEN <<>>
    ELSE Strip(Head(strings)) \o get_text(Tail(strings))

----------------------------------------------------------------------------
\* Documents.

\* <div data-purpose="section-heading">, with or without the title span
Heading(has_title, title) ==
    [tag |-> "heading", has_title |-> has_title, title |-> title]

\* <div data-purpose="section-duration">: optionally a screen-reader-only span
\* (its own text, then its nested spans), then optionally an aria-hidden span
Duration(has_sr, sr_text, sr_spans, has_hidden, hidden_text) ==
    [tag |-> "duration", has_sr |-> has_sr, sr_text |-> sr_text,
     sr_spans |-> sr_spans, has_hidden |-> has_hidden, hidden_text |-> hidden_text]

\* the text nodes of the screen-reader-only span, and of the whole duration div
SrStrings(d) == <<d.sr_text>> \o d.sr_spans

DivStrings(d) ==
    (IF d.has_sr THEN SrStrings(d) ELSE <<>>)
        \o (IF d.has_hidden THEN <<d.hidden_text>> ELSE <<>>)

\* soup.find_all("div", {"data-purpose": "section-heading"}): positions, in order
RECURSIVE find_all(_, _)
find_all(doc, i) ==
    IF i > Len(doc) THEN <<>>
    ELSE IF doc[i].tag = "heading" THEN <<i>> \o find_all(doc, i + 1)
    ELSE find_all(doc, i + 1)

\* find_next that stops at the next heading
RECURSIVE find_next_in_section(_, _)
find_next_in_section(doc, i) ==
    IF i + 1 > Len(doc) \/ doc[i + 1].tag = "heading" THEN 0
    ELSE IF doc[i + 1].tag = "duration" THEN i + 1
    ELSE find_next_in_section(doc, i + 1)

\* heading.find_next("div", {"data-purpose": "section-duration"}): the position
\* of the first duration div after position i, 0 when there is none
RECURSIVE find_next(_, _)
find_next(doc, i) ==
    IF i + 1 > Len(doc) THEN 0
    ELSE IF doc[i + 1].tag = "duration" THEN i + 1
    ELSE find_next(doc, i + 1)

----------------------------------------------------------------------------
\* extract_content, one heading.

\* TitleOf with the empty text, not "N/A", for a missing title span
TitleOfEmpty(heading) ==
    LET title == IF heading.has_title
                 THEN Replace(get_text(<<heading.title>>), Section_, Checklist)
                 ELSE <<>>
    IN  transform_spaces(title)

TitleOf(heading) ==
    LET title == IF heading.has_title
                 THEN Replace(get_text(<<heading.title>>), Section_, Checklist)
                 ELSE NA
    IN  transform_spaces(title)

\* RuleOf with the aria-hidden span looked up before the screen-reader-only span
RuleOfHiddenFirst(d) ==
    IF d.has_hidden
    THEN IF Contains(get_text(<<d.hidden_text>>), <<"|">>)
         THEN "hidden_pipe" ELSE "hidden"
    ELSE IF d.has_sr
         THEN IF Len(d.sr_spans) >= 2 THEN "sr_last" ELSE "sr_whole"
         ELSE "none"

\* the branch of the duration rules taken for a duration div
RuleOf(d) ==
    IF d.has_sr
    THEN IF Len(d.sr_spans) >= 2 THEN "sr_last" ELSE "sr_whole"
    ELSE IF d.has_hidden
         THEN IF Contains(get_text(<<d.hidden_text>>), <<"|">>)
              THEN "hidden_pipe" ELSE "hidden"
         ELSE "none"

DurationOfDiv(d) ==
    LET rule == RuleOf(d)
        text == get_text(<<d.hidden_text>>)
        duration ==
            CASE rule = "sr_last" -> get_text(<<d.sr_spans[Len(d.sr_spans)]>>)
              [] rule = "sr_whole" -> get_text(DivStrings(d))
              [] rule = "hidden_pipe" -> Strip(SplitLast(text))
              [] rule = "hidden" -> text
              [] OTHER -> NA
    IN  transform_spaces(duration)

DurationOf(doc, i) ==
    LET duration_div == find_next(doc, i)
    IN  IF duration_div # 0 THEN DurationOfDiv(doc[duration_div]) ELSE NA

RuleAt(doc, i) ==
    LET duration_div == find_next(doc, i)
    IN  IF duration_div # 0 THEN RuleOf(doc[duration_div]) ELSE "absent"

\* ExtractLoop inserting each record at the front
RECURSIVE ExtractLoopPrepend(_, _, _)
ExtractLoopPrepend(doc, headings, acc) ==
    IF headings = <<>> THEN acc
    ELSE LET i == Head(headings)
         IN  ExtractLoopPrepend(doc, Tail(headings),
                                <<(<<TitleOf(doc[i]), DurationOf(doc, i)>>)>> \o acc)

\* the for loop over section_headings: one append per heading
RECURSIVE ExtractLoop(_, _, _)
ExtractLoop(doc, headings, acc) ==
    IF headings = <<>> THEN acc
    ELSE LET i == Head(headings)
         IN  ExtractLoop(doc, Tail(headings),
                         Append(acc, <<TitleOf(doc[i]), DurationOf(doc, i)>>))

RECURSIVE RulesLoop(_, _, _)
RulesLoop(doc, headings, acc) ==
    IF headings = <<>> THEN acc
    ELSE RulesLoop(doc, Tail(headings), Append(acc, RuleAt(doc, Head(headings))))

\* extract_content without the reset
ResetKeeps(collection) == collection

\* self.sections = []  (line 61)
Reset(collection) == <<>>

----------------------------------------------------------------------------
\* The writers: the strings handed to file.write, in order.

RECURSIVE Flatten(_)
Flatten(chunks) ==
    IF chunks = <<>> THEN <<>> ELSE Head(chunks) \o Flatten(Tail(chunks))

TxtHeader ==
    <<"E", "x", "t", "r", "a", "c", "t", "e", "d", " ",
      "S", "e", "c", "t", "i", "o", "n", "s", ":", "\n", "\n">>

\* f"{title} - {duration}\n\n"
TxtParagraph(rec) == rec[1] \o <<" ", "-", " ">> \o rec[2] \o <<"\n", "\n">>

TxtWrites(recs) == <<TxtHeader>> \o [i \in 1..Len(recs) |-> TxtParagraph(recs[i])]

SectionTitle == <<"S", "e", "c", "t", "i", "o", "n", " ", "T", "i", "t", "l", "e">>
DurationWord == <<"D", "u", "r", "a", "t", "i", "o", "n">>

\* csv.writer, QUOTE_MINIMAL: a field holding the delimiter, the quote character
\* or a line-terminator character is quoted, its quote characters doubled
CsvSpecial == {"\t", "\"", "\r", "\n"}

CsvField(f) ==
    IF \E i \in 1..Len(f) : f[i] \in CsvSpecial
    THEN <<"\"">> \o Replace(f, <<"\"">>, <<"\"", "\"">>) \o <<"\"">>
    ELSE f

\* writer.writerow([a, b])
CsvRow(rec) == CsvField(rec[1]) \o <<"\t">> \o CsvField(rec[2]) \o <<"\r", "\n">>

TsvWrites(recs) ==
    <<CsvRow(<<SectionTitle, DurationWord>>)>> \o [i \in 1..Len(recs) |-> CsvRow(recs[i])]

----------------------------------------------------------------------------
\* Inputs.

RECURSIVE TextsUpTo(_, _)
TextsUpTo(F, n) ==
    IF n = 0 THEN {<<>>}
    ELSE LET T == TextsUpTo(F, n - 1) IN T \cup {t \o f : t \in T, f \in F}

TitleFrags == {Section_, <<"a">>, <<" ">>, <<"\n">>}
DurationFrags == {<<" ">>, <<"\t">>, <<"a">>, <<"|">>}

TitleTexts == TextsUpTo(TitleFrags, MaxFrags)
DurationTexts == TextsUpTo(DurationFrags, MaxFrags)

\* one heading with a title span, no duration div
TitleDocs == {<<Heading(TRUE, t)>> : t \in TitleTexts}

\* one heading without title span, followed by one duration div
DurationDivs ==
    UNION {{Duration(FALSE, <<>>, <<>>, TRUE, t),
            Duration(TRUE, t, <<>>, TRUE, <<"h">>),
            Duration(TRUE, <<>>, <<t>>, FALSE, <<>>),
            Duration(TRUE, <<"x">>, <<<<"a">>, t>>, TRUE, <<"h">>)} : t \in DurationTexts}

DurationDocs == {<<Heading(FALSE, <<>>), d>> : d \in DurationDivs}

\* documents of up to MaxNodes elements
StructNodes ==
    {Heading(FALSE, <<>>),
     Heading(TRUE, Section_ \o <<"1">>),
     Duration(FALSE, <<>>, <<>>, TRUE, <<"3", " ", "|", " ", "\"", "4">>),
     Duration(TRUE, <<>>, <<<<"1">>, <<"2">>>>, FALSE, <<>>),
     Duration(TRUE, <<"5">>, <<>>, TRUE, <<"6">>),
     Duration(FALSE, <<>>, <<>>, FALSE, <<>>)}

RECURSIVE SeqsUpTo(_, _)
SeqsUpTo(S, n) ==
    IF n = 0 THEN {<<>>}
    ELSE LET T == SeqsUpTo(S, n - 1) IN T \cup {Append(t, x) : t \in T, x \in S}

StructDocs == SeqsUpTo(StructNodes, MaxNodes)

Docs == TitleDocs \cup DurationDocs \cup StructDocs

\* every text the model feeds to transform_spaces directly
SpaceFrags == {<<" ">>, <<"\t">>, <<"\n">>, <<"\r">>, <<"a">>}

Texts == TitleTexts \cup DurationTexts \cup TextsUpTo(SpaceFrags, MaxFrags)

\* an output file left by an earlier run
Stale == [state |-> "stale", data |-> <<"o", "l", "d">>]
Absent == [state |-> "absent", data |-> <<>>]

NoError == [type |-> "", names |-> ""]

----------------------------------------------------------------------------
\* The state machine.
\*
\* caller = "main": the script of lines 127-140 (open_html, extract_content,
\*                  save_as_txt, print), which stops at an uncaught exception;
\* caller = "tsv":  the same sequence with save_as_tsv as the writer;
\* caller = "api":  the methods called in any order, exceptions caught;
\* caller = "text": transform_spaces called on a text.

Init ==
    /\ caller \in {"main", "tsv", "api", "text"}
    /\ \/ /\ caller # "text"
          /\ file_path = ""
          /\ fs \in {"missing", "dir"}
          /\ disk = <<>>
       \/ /\ caller # "text"
          /\ file_path = "input.html"
          /\ fs \in {"missing", "dir", "unreadable"}
          /\ disk = <<>>
       \/ /\ caller # "text"
          /\ file_path = "input.html"
          /\ fs = "file"
          /\ disk \in (IF caller = "api" THEN StructDocs ELSE Docs)
       \/ /\ caller = "text"
          /\ file_path = "input.html"
          /\ fs = "missing"
          /\ disk = <<>>
    /\ html_content = <<>>
    /\ sections = <<>>
    /\ previous = <<>>
    /\ rules = <<>>
    /\ out \in (IF caller = "text" THEN {Absent} ELSE {Absent, Stale})
    /\ pc = CASE caller = "api" -> "api"
              [] caller = "text" -> "transform_spaces"
              [] OTHER -> "open_html"
    /\ err = NoError
    /\ last = ""
    /\ arg \in (IF caller = "text" THEN Texts ELSE {<<>>})
    /\ ret = <<>>

\* where control goes after a call: the scripts stop at an uncaught exception,
\* the api caller may call again
After(next, e) ==
    IF caller = "api" THEN "api" ELSE IF e # NoError THEN "error" ELSE next

\* OpenError without the test for an empty path
OpenErrorNoEmptyCheck ==
    IF fs = "missing"
    THEN [type |-> "FileNotFoundError", names |-> "file_path"]
    ELSE IF fs = "dir" THEN [type |-> "IsADirectoryError", names |-> "full_path"]
    ELSE IF fs = "unreadable" THEN [type |-> "PermissionError", names |-> "full_path"]
    ELSE NoError

\* the exception open_html raises, NoError when it reads the file (lines 36-41)
OpenError ==
    IF file_path = "" \/ fs = "missing"
    THEN [type |-> "FileNotFoundError", names |-> "file_path"]
    ELSE IF fs = "dir" THEN [type |-> "IsADirectoryError", names |-> "full_path"]
    ELSE IF fs = "unreadable" THEN [type |-> "PermissionError", names |-> "full_path"]
    ELSE NoError

OpenHtml ==
    /\ pc \in {"open_html", "api"}
    /\ err' = OpenError
    /\ html_content' = IF OpenError = NoError THEN disk ELSE html_content
    /\ pc' = After("extract_content", OpenError)
    /\ last' = "open_html"
    /\ UNCHANGED <<file_path, fs, disk, sections, previous, rules, out, caller, arg, ret>>

ExtractContent ==
    /\ pc \in {"extract_content", "api"}
    /\ previous' = sections
    /\ sections' = ExtractLoop(html_content, find_all(html_content, 1), Reset(sections))
    /\ rules' = RulesLoop(html_content, find_all(html_content, 1), <<>>)
    /\ err' = NoError
    /\ pc' = After("save", NoError)
    /\ last' = "extract_content"
    /\ UNCHANGED <<file_path, fs, disk, html_content, out, caller, arg, ret>>

\* the file opened in mode 'a': what it held stays in front
OpenedAppend(old, data) == [state |-> "written", data |-> old.data \o data]

\* the file opened in mode 'w' (created or truncated), then holding data
Opened(old, data) == [state |-> "written", data |-> data]

\* open(full_output_path, 'w') then the writes.  k = -1: the open fails and the
\* file is untouched; 0 <= k < Len(writes): the open truncates, k writes reach
\* the file and the next one fails; k = Len(writes): every write reaches the
\* file.  A failure falls between two writes; the with block closes the file.
SaveError(writes, k) ==
    IF k = Len(writes) THEN NoError
    ELSE [type |-> "OSError", names |-> "full_output_path"]

Save(writes, k) ==
    /\ out' = IF k = -1 THEN out ELSE Opened(out, Flatten(SubSeq(writes, 1, k)))
    /\ err' = SaveError(writes, k)
    /\ pc' = After("print", SaveError(writes, k))

SaveAsTxt ==
    /\ \/ pc = "save" /\ caller = "main"
       \/ pc = "api"
    /\ \E k \in -1..Len(TxtWrites(sections)) : Save(TxtWrites(sections), k)
    /\ last' = "save_as_txt"
    /\ UNCHANGED <<file_path, fs, disk, html_content, sections, previous, rules, caller, arg, ret>>

SaveAsTsv ==
    /\ \/ pc = "save" /\ caller = "tsv"
       \/ pc = "api"
    /\ \E k \in -1..Len(TsvWrites(sections)) : Save(TsvWrites(sections), k)
    /\ last' = "save_as_tsv"
    /\ UNCHANGED <<file_path, fs, disk, html_content, sections, previous, rules, caller, arg, ret>>

\* print(f"Extracted sections have been saved to '{output_file}'.")
PrintSaved ==
    /\ pc = "print"
    /\ pc' = "exit"
    /\ last' = "print"
    /\ UNCHANGED <<file_path, fs, disk, html_content, sections, previous, rules, out,
                   caller, err, arg, ret>>

TransformSpaces ==
    /\ pc = "transform_spaces"
    /\ ret' = transform_spaces(arg)
    /\ pc' = "exit"
    /\ last' = "transform_spaces"
    /\ UNCHANGED <<file_path, fs, disk, html_content, sections, previous, rules, out,
                   caller, err, arg>>

Next ==
    \/ OpenHtml
    \/ ExtractContent
    \/ SaveAsTxt
    \/ SaveAsTsv
    \/ PrintSaved
    \/ TransformSpaces

Spec == Init /\ [][Next]_vars

----------------------------------------------------------------------------
\* Reading the documents and the output files back, for the properties.

HeadingPositions(doc) == {p \in 1..Len(doc) : doc[p].tag = "heading"}

\* the position of the i-th heading of doc
NthHeading(doc, i) ==
    CHOOSE p \in HeadingPositions(doc) :
        Cardinality({q \in HeadingPositions(doc) : q < p}) = i - 1

\* the duration divs after position p
DurationsAfter(doc, p) == {q \in 1..Len(doc) : q > p /\ doc[q].tag = "duration"}

IsPrefix(p, s) == Len(p) <= Len(s) /\ SubSeq(s, 1, Len(p)) = p

\* s.split(sep)
RECURSIVE SplitFrom(_, _, _, _)
SplitFrom(s, sep, i, cur) ==
    IF i > Len(s) THEN <<cur>>
    ELSE IF MatchAt(s, sep, i) THEN <<cur>> \o SplitFrom(s, sep, i + Len(sep), <<>>)
    ELSE SplitFrom(s, sep, i + 1, Append(cur, s[i]))

Split(s, sep) == SplitFrom(s, sep, 1, <<>>)

ButLast(q) == SubSeq(q, 1, Len(q) - 1)

\* a text file: the header line, a blank line, then paragraphs each followed by
\* a blank line
TxtWellFormed(data) ==
    /\ IsPrefix(TxtHeader, data)
    /\ LET parts == Split(SubSeq(data, Len(TxtHeader) + 1, Len(data)), <<"\n", "\n">>)
       IN  parts[Len(parts)] = <<>>

TxtParagraphs(data) ==
    ButLast(Split(SubSeq(data, Len(TxtHeader) + 1, Len(data)), <<"\n", "\n">>))

\* a csv reader for one row: tab-separated fields, a field may be quoted, a
\* doubled quote inside a quoted field is one quote
RECURSIVE CsvFields(_, _, _, _)
CsvFields(row, i, cur, quoted) ==
    IF i > Len(row) THEN <<cur>>
    ELSE IF quoted
         THEN IF row[i] = "\""
              THEN IF i < Len(row) /\ row[i + 1] = "\""
                   THEN CsvFields(row, i + 2, Append(cur, "\""), TRUE)
                   ELSE CsvFields(row, i + 1, cur, FALSE)
              ELSE CsvFields(row, i + 1, Append(cur, row[i]), TRUE)
         ELSE IF row[i] = "\"" /\ cur = <<>> THEN CsvFields(row, i + 1, cur, TRUE)
         ELSE IF row[i] = "\t" THEN <<cur>> \o CsvFields(row, i + 1, <<>>, FALSE)
         ELSE CsvFields(row, i + 1, Append(cur, row[i]), FALSE)

TsvWellFormed(data) ==
    LET lines == Split(data, <<"\r", "\n">>) IN lines[Len(lines)] = <<>>

\* the rows of a tsv file, header row included
TsvRows(data) ==
    LET lines == ButLast(Split(data, <<"\r", "\n">>))
    IN  [i \in 1..Len(lines) |-> CsvFields(lines[i], 1, <<>>, FALSE)]

\* the paragraph save_as_txt is to write for a record
Paragraph(rec) == rec[1] \o <<" ", "-", " ">> \o rec[2]

\* data is the whole text file (tsv file) for the records recs
CompleteTxt(data, recs) ==
    /\ TxtWellFormed(data)
    /\ TxtParagraphs(data) = [i \in 1..Len(recs) |-> Paragraph(recs[i])]

CompleteTsv(data, recs) ==
    /\ TsvWellFormed(data)
    /\ TsvRows(data) = <<(<<SectionTitle, DurationWord>>)>> \o recs

Complete(data, recs) ==
    IF caller = "tsv" THEN CompleteTsv(data, recs) ELSE CompleteTxt(data, recs)

\* data is an output cut short: nothing, or the header and fewer records
Partial(data, recs) ==
    \/ data = <<>>
    \/ \E k \in 0..(Len(recs) - 1) : Complete(data, SubSeq(recs, 1, k))

Saves == {"save_as_txt", "save_as_tsv"}
Scripted == caller \in {"main", "tsv"}
Ended == pc \in {"exit", "error"}

----------------------------------------------------------------------------
\* Properties.

\* C1: when the input path is empty or names nothing on disk, open_html raises
\* FileNotFoundError naming the path; a scripted run stops there, with the
\* output file neither created nor overwritten and the collection empty.
C1_MissingSource ==
    (caller # "text" /\ (file_path = "" \/ fs = "missing")) =>
        /\ last = "open_html" =>
              err = [type |-> "FileNotFoundError", names |-> "file_path"]
        /\ (Scripted /\ last # "") =>
              /\ last = "open_html"
              /\ pc = "error"
              /\ ~ENABLED Next
              /\ out.state # "written"
              /\ sections = <<>>

C1_Witness ==
    /\ caller = "main"
    /\ file_path = ""
    /\ pc = "error"
    /\ last = "open_html"
    /\ out = Stale

C3_OnePerHeading ==
    /\ last = "extract_content" =>
          /\ Len(sections) = Cardinality(HeadingPositions(html_content))
          /\ \A i \in 1..Len(sections) :
                LET p == NthHeading(html_content, i)
                IN  sections[i] = <<TitleOf(html_content[p]), DurationOf(html_content, p)>>
    /\ (last = "save_as_txt" /\ err = NoError) => CompleteTxt(out.data, sections)
    /\ (last = "save_as_tsv" /\ err = NoError) => CompleteTsv(out.data, sections)
    /\ (caller = "main" /\ pc \in {"print", "exit"}) =>
          /\ Len(TxtParagraphs(out.data)) = Cardinality(HeadingPositions(html_content))
          /\ HeadingPositions(html_content) = {} => out.data = TxtHeader
    /\ (caller = "tsv" /\ pc \in {"print", "exit"}) =>
          /\ Len(TsvRows(out.data)) = 1 + Cardinality(HeadingPositions(html_content))
          /\ HeadingPositions(html_content) = {} =>
                out.data = SectionTitle \o <<"\t">> \o DurationWord \o <<"\r", "\n">>

C3_Witness ==
    /\ caller = "tsv"
    /\ pc = "exit"
    /\ Len(html_content) = 3
    /\ Len(sections) = 2
    /\ sections[1] # sections[2]
    /\ Len(TsvRows(out.data)) = 3

\* the collection one extract_content call builds from doc, starting empty
Single(doc) == ExtractLoop(doc, find_all(doc, 1), <<>>)

\* C4: whatever the collection held before, extract_content leaves exactly what
\* one call on the loaded content builds; a call right after another changes
\* nothing, and the saves leave the collection alone.
C4_NoAccumulation ==
    /\ [](last = "extract_content" => sections = Single(html_content))
    /\ [][(last = "extract_content" /\ last' = "extract_content")
            => sections' = sections]_vars
    /\ [][last' \in Saves => sections' = sections]_vars

C4_Witness ==
    /\ last = "extract_content"
    /\ Len(previous) = 2
    /\ sections = previous

\* C5 as stated: only a leading "Section " of the trimmed title text is
\* rewritten to "\n[ ] S."; every other title, and any later "Section ", is
\* left as it is; then whitespace is collapsed.
C5_PrefixOnly ==
    last = "extract_content" =>
        \A i \in 1..Len(sections) :
            LET h == html_content[NthHeading(html_content, i)]
                t == Strip(h.title)
            IN  h.has_title =>
                    sections[i][1] =
                        transform_spaces(IF IsPrefix(Section_, t)
                                         THEN Checklist \o SubSeq(t, Len(Section_) + 1, Len(t))
                                         ELSE t)

\* C6 as stated: with a screen-reader-only span in the duration div, the
\* duration is the trimmed text of the last nested span when there are two or
\* more, and otherwise the trimmed text of the screen-reader-only span itself.
C6_ScreenReaderText ==
    last = "extract_content" =>
        \A i \in 1..Len(sections) :
            LET D == DurationsAfter(html_content, NthHeading(html_content, i))
            IN  D # {} =>
                    LET d == html_content[CHOOSE q \in D : \A r \in D : q <= r]
                    IN  d.has_sr =>
                            sections[i][2] =
                                transform_spaces(
                                    IF Len(d.sr_spans) >= 2
                                    THEN Strip(d.sr_spans[Len(d.sr_spans)])
                                    ELSE get_text(SrStrings(d)))

\* what follows the last "|" of t, trimmed; t itself when it holds no "|"
AfterLastPipe(t) ==
    IF \E j \in 1..Len(t) : t[j] = "|"
    THEN LET j == CHOOSE j \in 1..Len(t) :
                      t[j] = "|" /\ \A k \in (j + 1)..Len(t) : t[k] # "|"
         IN  Strip(SubSeq(t, j + 1, Len(t)))
    ELSE t

\* C7: the aria-hidden span decides the duration only when the duration div has
\* no screen-reader-only span; then the duration is the span's trimmed text, or
\* what follows its last "|", trimmed; with neither span it is "N/A".
C7_HiddenFallback ==
    last = "extract_content" =>
        \A i \in 1..Len(sections) :
            LET D == DurationsAfter(html_content, NthHeading(html_content, i))
            IN  D # {} =>
                    LET d == html_content[CHOOSE q \in D : \A r \in D : q <= r]
                    IN  /\ rules[i] \in {"hidden", "hidden_pipe"} <=> (~d.has_sr /\ d.has_hidden)
                        /\ (~d.has_sr /\ d.has_hidden) =>
                              sections[i][2] =
                                  transform_spaces(AfterLastPipe(Strip(d.hidden_text)))
                        /\ (~d.has_sr /\ ~d.has_hidden) => sections[i][2] = NA

C7_Witness ==
    /\ last = "extract_content"
    /\ Len(sections) = 1
    /\ rules[1] = "hidden_pipe"
    /\ html_content[2].hidden_text = <<"a", "|", "a">>
    /\ sections[1][2] = <<"a">>

\* C8: extract_content raises nothing and emits one record per heading whatever
\* is missing; the title is "N/A" when the heading has no title span, the
\* duration is "N/A" when no duration div follows the heading.
C8_Degrades ==
    last = "extract_content" =>
        /\ err = NoError
        /\ Len(sections) = Cardinality(HeadingPositions(html_content))
        /\ \A i \in 1..Len(sections) :
              LET p == NthHeading(html_content, i)
              IN  /\ ~html_content[p].has_title => sections[i][1] = NA
                  /\ DurationsAfter(html_content, p) = {} => sections[i][2] = NA

C8_Witness ==
    /\ last = "extract_content"
    /\ Len(html_content) = 3
    /\ html_content[3] = Heading(FALSE, <<>>)
    /\ html_content[2].tag = "duration"
    /\ html_content[2].has_sr
    /\ html_content[2].has_hidden
    /\ sections[2] = <<NA, NA>>

\* no tab, line break or carriage return, and no two whitespace characters in a row
Collapsed(s) ==
    /\ \A i \in 1..Len(s) : s[i] \notin {"\t", "\n", "\r"}
    /\ \A i \in 1..(Len(s) - 1) : ~(IsSpace(s[i]) /\ IsSpace(s[i + 1]))

\* s without its whitespace
Letters(s) == SelectSeq(s, LAMBDA c : ~IsSpace(c))

\* C9: transform_spaces returns a text that it maps to itself, with no tab or
\* line break and no two whitespace characters in a row, the other characters
\* kept; a leading or trailing run of whitespace is left as one space; every
\* title and duration of the collection is such a fixed point.
C9_Collapse ==
    /\ last = "transform_spaces" =>
          /\ transform_spaces(ret) = ret
          /\ Collapsed(ret)
          /\ Letters(ret) = Letters(arg)
          /\ (arg # <<>> /\ IsSpace(arg[1])) => (ret # <<>> /\ ret[1] = " ")
          /\ (arg # <<>> /\ IsSpace(arg[Len(arg)])) => (ret # <<>> /\ ret[Len(ret)] = " ")
          /\ (arg # <<>> /\ ~IsSpace(arg[1])) => ret[1] = arg[1]
    /\ \A i \in 1..Len(sections) :
          /\ transform_spaces(sections[i][1]) = sections[i][1]
          /\ transform_spaces(sections[i][2]) = sections[i][2]
          /\ Collapsed(sections[i][1])
          /\ Collapsed(sections[i][2])

C9_Witness ==
    /\ last = "transform_spaces"
    /\ arg = <<" ", "\t", "a">>
    /\ ret = <<" ", "a">>

\* C10: the duration of a heading comes from the first duration div after it in
\* the document, headings in between or not; it is "N/A" for want of a div
\* exactly when no duration div follows the heading.
C10_NextDurationAnywhere ==
    last = "extract_content" =>
        \A i \in 1..Len(sections) :
            LET D == DurationsAfter(html_content, NthHeading(html_content, i))
            IN  /\ rules[i] = "absent" <=> D = {}
                /\ D = {} => sections[i][2] = NA
                /\ D # {} =>
                      LET q == CHOOSE q \in D : \A r \in D : q <= r
                      IN  sections[i][2] = DurationOfDiv(html_content[q])

C10_Witness ==
    /\ last = "extract_content"
    /\ Len(html_content) = 3
    /\ html_content[1].tag = "heading"
    /\ html_content[2].tag = "heading"
    /\ html_content[3].tag = "duration"
    /\ sections[1][2] = sections[2][2]
    /\ sections[1][2] = <<"2">>

====
